---- MODULE Spec2Model ----
(***************************************************************************)
(* A model of jargon_shredder.py: the rule-based buzzword sweep, the       *)
(* model-assisted fact extraction, the prompt builder and the main         *)
(* pipeline that connects them.                                            *)
(*                                                                         *)
(* Text is a sequence of lexical tokens.  A token is either a maximal run  *)
(* of word characters (what the regex class \w matches) or one single      *)
(* non-word character (a whitespace character or a punctuation mark).      *)
(* Every text the model starts from is canonically tokenised: no two word  *)
(* tokens are adjacent.                                                    *)
(***************************************************************************)
EXTENDS Integers, Sequences, FiniteSets, TLC

VARIABLES pc, args, original, preclean, resweep, facts, prompt, out,
          requests, stdout, stderr, exc

vars == <<pc, args, original, preclean, resweep, facts, prompt, out,
          requests, stdout, stderr, exc>>

\* ---------------------------------------------------------------- bounds

\* Longest buzzword input text, in tokens.
MaxLen == 3
\* Longest whitespace input text, in tokens.
MaxWsLen == 5

\* ------------------------------------------------------------------ text

\* The characters the regex class \s and str.strip() treat as whitespace.
Whitespace == {" ", "\t", "\n"}

\* Single non-word, non-whitespace characters that occur in the texts.
Punct == {",", ".", "-", "+", "'", ":", "{", "}", "[", "]", "\"", "\\"}

IsWs(t) == t \in Whitespace

IsWordTok(t) == t \notin (Whitespace \cup Punct)

\* Case folding of re.IGNORECASE, for the tokens that carry upper case.
LowerTab ==
  [t \in {"ETL", "Etl", "AI", "LATENCY", "Latency", "Our", "MQTT", "HIPAA"} |->
     CASE t = "ETL" -> "etl"
       [] t = "Etl" -> "etl"
       [] t = "AI" -> "ai"
       [] t = "LATENCY" -> "latency"
       [] t = "Latency" -> "latency"
       [] t = "Our" -> "our"
       [] t = "MQTT" -> "mqtt"
       [] t = "HIPAA" -> "hipaa"]

Lower(t) == IF t \in DOMAIN LowerTab THEN LowerTab[t] ELSE t

\* No two word tokens adjacent: the text is canonically tokenised.
Canonical(text) ==
  \A i \in 1..(Len(text) - 1) : ~(IsWordTok(text[i]) /\ IsWordTok(text[i + 1]))

RECURSIVE SeqsOfLen(_, _)
SeqsOfLen(S, n) ==
  IF n = 0 THEN {<<>>}
  ELSE {Append(s, x) : s \in SeqsOfLen(S, n - 1), x \in S}

SeqsUpTo(S, n) == UNION {SeqsOfLen(S, k) : k \in 0..n}

\* ------------------------------------------------------------- the table

\* Each rule: the pattern as one set of (lower-case) alternatives per token,
\* and the replacement text.  A pattern \bw1 w2\b is <<{w1}, {" "}, {w2}>>,
\* [- ] is {"-", " "}, and an optional suffix gives two alternatives.
BUZZMAP ==
  <<
    [pat  |-> <<{"federated"}>>,
     repl |-> <<"spread", " ", "across", " ", "different", " ", "places">>],
    [pat  |-> <<{"embedding", "embeddings"}>>,
     repl |-> <<"a", " ", "way", " ", "to", " ", "compare", " ", "meaning", " ", "in", " ", "text">>],
    [pat  |-> <<{"latency"}>>,
     repl |-> <<"delay">>],
    [pat  |-> <<{"throughput"}>>,
     repl |-> <<"how", " ", "much", " ", "it", " ", "can", " ", "handle">>],
    [pat  |-> <<{"scalable"}>>,
     repl |-> <<"can", " ", "grow", " ", "without", " ", "breaking">>],
    [pat  |-> <<{"robust"}>>,
     repl |-> <<"hard", " ", "to", " ", "break">>],
    [pat  |-> <<{"resilient"}>>,
     repl |-> <<"recovers", " ", "from", " ", "problems">>],
    [pat  |-> <<{"seamless"}>>,
     repl |-> <<"smooth">>],
    [pat  |-> <<{"actionable"}>>,
     repl |-> <<"useful", " ", "and", " ", "ready", " ", "to", " ", "use">>],
    [pat  |-> <<{"intelligence"}>>,
     repl |-> <<"information">>],
    [pat  |-> <<{"data"}, {" "}, {"enrichment"}>>,
     repl |-> <<"adding", " ", "extra", " ", "info", " ", "to", " ", "data">>],
    [pat  |-> <<{"disruption", "disruptive"}>>,
     repl |-> <<"a", " ", "big", " ", "change", " ", "in", " ", "how", " ", "things", " ", "are", " ", "done">>],
    [pat  |-> <<{"paradigm"}>>,
     repl |-> <<"approach">>],
    [pat  |-> <<{"leverage"}>>,
     repl |-> <<"use">>],
    [pat  |-> <<{"at"}, {" "}, {"scale"}>>,
     repl |-> <<"for", " ", "lots", " ", "of", " ", "users">>],
    [pat  |-> <<{"ai"}, {" ", "-"}, {"powered"}>>,
     repl |-> <<"uses", " ", "AI">>],
    [pat  |-> <<{"generative"}, {" "}, {"ai"}>>,
     repl |-> <<"an", " ", "AI", " ", "that", " ", "writes", " ", "or", " ", "makes", " ", "things">>],
    [pat  |-> <<{"large"}, {" "}, {"language"}, {" "}, {"model", "models"}>>,
     repl |-> <<"a", " ", "text", " ", "AI">>],
    [pat  |-> <<{"microservice", "microservices"}>>,
     repl |-> <<"many", " ", "small", " ", "services">>],
    [pat  |-> <<{"serverless"}>>,
     repl |-> <<"you", " ", "don", "'", "t", " ", "manage", " ", "the", " ", "servers">>],
    [pat  |-> <<{"edge"}, {" "}, {"computing"}>>,
     repl |-> <<"processing", " ", "on", " ", "the", " ", "device">>],
    [pat  |-> <<{"observability"}>>,
     repl |-> <<"seeing", " ", "what", " ", "the", " ", "system", " ", "is", " ", "doing">>],
    [pat  |-> <<{"zero"}, {" ", "-"}, {"trust"}>>,
     repl |-> <<"always", " ", "verify">>],
    [pat  |-> <<{"blockchain"}>>,
     repl |-> <<"a", " ", "shared", " ", "ledger">>],
    [pat  |-> <<{"smart"}, {" "}, {"contract", "contracts"}>>,
     repl |-> <<"programs", " ", "on", " ", "a", " ", "blockchain">>],
    [pat  |-> <<{"vector"}, {" "}, {"database"}>>,
     repl |-> <<"a", " ", "database", " ", "for", " ", "comparing", " ", "meanings">>],
    [pat  |-> <<{"multi"}, {" ", "-"}, {"tenant"}>>,
     repl |-> <<"many", " ", "customers", " ", "on", " ", "one", " ", "system">>],
    [pat  |-> <<{"etl"}>>,
     repl |-> <<"extract", ",", " ", "transform", ",", " ", "load", " ", "data">>],
    [pat  |-> <<{"rtos"}>>,
     repl |-> <<"a", " ", "real", "-", "time", " ", "operating", " ", "system">>],
    [pat  |-> <<{"hil"}>>,
     repl |-> <<"hardware", "-", "in", "-", "the", "-", "loop", " ", "testing">>],
    [pat  |-> <<{"devops"}>>,
     repl |-> <<"dev", " ", "+", " ", "ops", " ", "practices">>],
    [pat  |-> <<{"sre"}>>,
     repl |-> <<"site", " ", "reliability", " ", "engineering">>],
    [pat  |-> <<{"sdk"}>>,
     repl |-> <<"software", " ", "toolkit">>],
    [pat  |-> <<{"kpi", "kpis"}>>,
     repl |-> <<"key", " ", "metrics">>],
    [pat  |-> <<{"okr", "okrs"}>>,
     repl |-> <<"goals", " ", "and", " ", "results">>],
    [pat  |-> <<{"iot"}>>,
     repl |-> <<"internet", "-", "connected", " ", "devices">>],
    [pat  |-> <<{"mqtt"}>>,
     repl |-> <<"a", " ", "pub", "-", "sub", " ", "message", " ", "protocol">>],
    [pat  |-> <<{"llm", "llms"}>>,
     repl |-> <<"text", " ", "AI", " ", "models">>],
    [pat  |-> <<{"knowledge"}, {" "}, {"graph"}>>,
     repl |-> <<"a", " ", "map", " ", "of", " ", "linked", " ", "facts">>],
    [pat  |-> <<{"data"}, {" "}, {"lake"}>>,
     repl |-> <<"a", " ", "big", " ", "raw", " ", "data", " ", "pool">>],
    [pat  |-> <<{"time"}, {" ", "-"}, {"to"}, {" ", "-"}, {"value"}>>,
     repl |-> <<"how", " ", "fast", " ", "it", " ", "helps", " ", "you">>],
    [pat  |-> <<{"incremental", "incrementally"}>>,
     repl |-> <<"step", " ", "by", " ", "step">>],
    [pat  |-> <<{"greenfield"}>>,
     repl |-> <<"built", " ", "from", " ", "scratch">>],
    [pat  |-> <<{"brownfield"}>>,
     repl |-> <<"built", " ", "on", " ", "existing", " ", "systems">>]
  >>

\* ------------------------------------------------------------- the sweep

\* A text under substitution: its tokens, for each token the rule that
\* introduced it (0: it comes from the input), and whether some match so
\* far covered a token that a rule introduced.
Tagged(text) ==
  [toks |-> text, src |-> [i \in 1..Len(text) |-> 0], hit |-> FALSE]

\* pattern `pat` matches `toks` at token i: every pattern token matches
\* case-insensitively, and the \b anchors hold at both ends.
MatchAt(pat, toks, i) ==
  LET e == i + Len(pat) - 1 IN
  /\ e <= Len(toks)
  /\ \A k \in 1..Len(pat) : Lower(toks[i + k - 1]) \in pat[k]
  /\ (i = 1 \/ ~IsWordTok(toks[i - 1]))
  /\ (e = Len(toks) \/ ~IsWordTok(toks[e + 1]))

Min(S) == CHOOSE x \in S : \A y \in S : x <= y

Max(S) == CHOOSE x \in S : \A y \in S : y <= x

\* re.sub(pat, repl, out, flags=re.IGNORECASE) for rule n, from token i on:
\* the leftmost match at or after i is replaced and the scan goes on behind
\* it, so matches do not overlap and a replacement is not scanned again.
RECURSIVE SubFrom(_, _, _, _)
SubFrom(n, st, i, acc) ==
  LET pat == BUZZMAP[n].pat
      at  == {j \in i..Len(st.toks) : MatchAt(pat, st.toks, j)}
  IN IF at = {}
     THEN [toks |-> acc.toks \o SubSeq(st.toks, i, Len(st.toks)),
           src  |-> acc.src \o SubSeq(st.src, i, Len(st.toks)),
           hit  |-> acc.hit]
     ELSE LET j    == Min(at)
              e    == j + Len(pat) - 1
              repl == BUZZMAP[n].repl
          IN SubFrom(n, st, e + 1,
                     [toks |-> acc.toks \o SubSeq(st.toks, i, j - 1) \o repl,
                      src  |-> acc.src \o SubSeq(st.src, i, j - 1)
                                \o [k \in 1..Len(repl) |-> n],
                      hit  |-> acc.hit \/ \E k \in j..e : st.src[k] # 0])

re_sub(n, st) ==
  SubFrom(n, st, 1, [toks |-> <<>>, src |-> <<>>, hit |-> st.hit])

\* The loop over BUZZMAP.items() from rule n on: the rules in table order,
\* each on the result of the one before.  A rule that matches nowhere
\* leaves the text as it is, so the loop goes on at the next rule that
\* matches.
RECURSIVE ApplyFrom(_, _)
ApplyFrom(n, st) ==
  LET live == {m \in n..Len(BUZZMAP) :
                 \E i \in 1..Len(st.toks) : MatchAt(BUZZMAP[m].pat, st.toks, i)}
  IN IF live = {} THEN st
     ELSE ApplyFrom(Min(live) + 1, re_sub(Min(live), st))

ApplyRules(text) == ApplyFrom(1, Tagged(text))

\* Whether a run of two or more whitespace characters starts at token i.
RunStart(toks, i) == i < Len(toks) /\ IsWs(toks[i]) /\ IsWs(toks[i + 1])

\* The last token of the whitespace run that starts at token i.
RunEnd(toks, i) ==
  CHOOSE j \in i..Len(toks) :
    /\ \A k \in i..j : IsWs(toks[k])
    /\ (j = Len(toks) \/ ~IsWs(toks[j + 1]))

RECURSIVE CollapsePairsFrom(_, _, _)
CollapsePairsFrom(toks, i, acc) ==
  LET at == {j \in i..Len(toks) : RunStart(toks, j)} IN
  IF at = {} THEN acc \o SubSeq(toks, i, Len(toks))
  ELSE CollapsePairsFrom(toks, Min(at) + 2,
                         acc \o SubSeq(toks, i, Min(at) - 1) \o <<" ">>)

\* As Collapse, with the pattern \s{2} in place of \s{2,}.
CollapsePairs(toks) == CollapsePairsFrom(toks, 1, <<>>)

\* re.sub(r"\s{2,}", " ", out) from token i on: the leftmost run of two or
\* more whitespace characters becomes one space, whole (the match is
\* greedy), and the scan goes on behind it.
RECURSIVE CollapseFrom(_, _, _)
CollapseFrom(toks, i, acc) ==
  LET at == {j \in i..Len(toks) : RunStart(toks, j)} IN
  IF at = {} THEN acc \o SubSeq(toks, i, Len(toks))
  ELSE CollapseFrom(toks, RunEnd(toks, Min(at)) + 1,
                    acc \o SubSeq(toks, i, Min(at) - 1) \o <<" ">>)

Collapse(toks) == CollapseFrom(toks, 1, <<>>)

\* str.lstrip(): the trim of the left end alone
StripLeading(toks) ==
  LET keep == {i \in 1..Len(toks) : ~IsWs(toks[i])} IN
  IF keep = {} THEN <<>>
  ELSE SubSeq(toks, Min(keep), Len(toks))

\* str.strip()
Strip(toks) ==
  LET keep == {i \in 1..Len(toks) : ~IsWs(toks[i])} IN
  IF keep = {} THEN <<>>
  ELSE SubSeq(toks, Min(keep), Max(keep))

buzz_sweep(text) == Strip(Collapse(ApplyRules(text).toks))

\* ------------------------------------------------------------------ JSON

\* A JSON value: its type, its text (a string's tokens, a number's
\* token), and its items (a list's values, keyed <<>>; a dict's pairs in
\* insertion order, each key a text).
JNull == [t |-> "null", s |-> <<>>, items |-> <<>>]

JNum(tok) == [t |-> "num", s |-> <<tok>>, items |-> <<>>]

JStr(text) == [t |-> "str", s |-> text, items |-> <<>>]

JList(vals) ==
  [t |-> "list", s |-> <<>>,
   items |-> [i \in 1..Len(vals) |-> [key |-> <<>>, val |-> vals[i]]]]

JDict(pairs) == [t |-> "dict", s |-> <<>>, items |-> pairs]

Numerals == {"1", "42"}

HasKey(d, k) == \E i \in 1..Len(d.items) : d.items[i].key = k

\* dict.get(k, dflt)
Get(d, k, dflt) ==
  IF HasKey(d, k)
  THEN d.items[CHOOSE i \in 1..Len(d.items) : d.items[i].key = k].val
  ELSE dflt

\* d[k] = v: a key already present keeps its place.
Put(d, k, v) ==
  IF HasKey(d, k)
  THEN [d EXCEPT !.items =
          [i \in 1..Len(d.items) |->
             IF d.items[i].key = k THEN [key |-> k, val |-> v] ELSE d.items[i]]]
  ELSE [d EXCEPT !.items = Append(@, [key |-> k, val |-> v])]

\* dict.setdefault(k, v)
SetDefault(d, k, v) == IF HasKey(d, k) THEN d ELSE Put(d, k, v)

\* The characters json.dumps escapes inside a string literal.
Specials == {"\"", "\\", "\n", "\t"}

EscapeOf(c) ==
  CASE c = "\"" -> <<"\\", "\"">>
    [] c = "\\" -> <<"\\", "\\">>
    [] c = "\n" -> <<"\\", "n">>
    [] c = "\t" -> <<"\\", "t">>

\* The text of a string literal: each special character escaped, the rest
\* copied.
RECURSIVE EscapeFrom(_, _, _)
EscapeFrom(text, i, acc) ==
  LET at == {j \in i..Len(text) : text[j] \in Specials} IN
  IF at = {} THEN acc \o SubSeq(text, i, Len(text))
  ELSE EscapeFrom(text, Min(at) + 1,
                  acc \o SubSeq(text, i, Min(at) - 1) \o EscapeOf(text[Min(at)]))

Escape(text) == EscapeFrom(text, 1, <<>>)

\* sep.join(terms)
RECURSIVE Join(_, _)
Join(terms, sep) ==
  IF terms = <<>> THEN <<>>
  ELSE IF Len(terms) = 1 THEN terms[1]
  ELSE terms[1] \o sep \o Join(Tail(terms), sep)

\* json.dumps(v), with its default separators ", " and ": ".
RECURSIVE Dumps(_)
Dumps(v) ==
  CASE v.t = "null" -> <<"null">>
    [] v.t = "num"  -> v.s
    [] v.t = "str"  -> <<"\"">> \o Escape(v.s) \o <<"\"">>
    [] v.t = "list" ->
         <<"[">>
         \o Join([k \in 1..Len(v.items) |-> Dumps(v.items[k].val)], <<",", " ">>)
         \o <<"]">>
    [] v.t = "dict" ->
         <<"{">>
         \o Join([k \in 1..Len(v.items) |->
                    <<"\"">> \o Escape(v.items[k].key) \o <<"\"", ":", " ">>
                    \o Dumps(v.items[k].val)],
                 <<",", " ">>)
         \o <<"}">>

\* The first token at or after i that is not whitespace (Len + 1: none).
SkipWs(toks, i) ==
  CHOOSE j \in i..(Len(toks) + 1) :
    /\ \A k \in i..(j - 1) : IsWs(toks[k])
    /\ (j = Len(toks) + 1 \/ ~IsWs(toks[j]))

ParseFail == [ok |-> FALSE, val |-> JNull, nxt |-> 0]

\* The rest of a string literal whose opening quote has been read, from
\* token i on, acc being its text so far: up to the closing quote, escapes
\* undone; a raw control character is an error.  j is the next special
\* character (0: none).
RECURSIVE ScanString(_, _, _)
RECURSIVE ScanStringAt(_, _, _)
ScanStringAt(toks, j, text) ==
  IF j = 0 THEN ParseFail
  ELSE IF toks[j] = "\"" THEN [ok |-> TRUE, val |-> JStr(text), nxt |-> j + 1]
  ELSE IF toks[j] # "\\" \/ j + 1 > Len(toks) THEN ParseFail
  ELSE IF toks[j + 1] \in {"\"", "\\"}
  THEN ScanString(toks, j + 2, Append(text, toks[j + 1]))
  ELSE IF toks[j + 1] = "n" THEN ScanString(toks, j + 2, Append(text, "\n"))
  ELSE IF toks[j + 1] = "t" THEN ScanString(toks, j + 2, Append(text, "\t"))
  ELSE ParseFail

NextSpecial(toks, i) ==
  IF \E j \in i..Len(toks) : toks[j] \in Specials
  THEN Min({j \in i..Len(toks) : toks[j] \in Specials})
  ELSE 0

ScanString(toks, i, acc) ==
  ScanStringAt(toks, NextSpecial(toks, i),
               IF NextSpecial(toks, i) = 0 THEN acc
               ELSE acc \o SubSeq(toks, i, NextSpecial(toks, i) - 1))

\* The JSON parser.  Parse(toks, i, what, acc) reads from token i on:
\* what = "value": one value.  what = "elements": the rest of a list whose
\* elements so far are acc.  what = "members": the rest of an object whose
\* members so far make the dict acc.
RECURSIVE Parse(_, _, _, _)
RECURSIVE ParseAt(_, _, _, _)
RECURSIVE ParseColon(_, _, _)
RECURSIVE ParseMemberValue(_, _, _, _)
RECURSIVE ParseItem(_, _, _, _, _)
RECURSIVE ParseNext(_, _, _, _)

\* After an item: a comma and the next item, or the closing bracket.
ParseNext(toks, j, what, acc) ==
  IF j > Len(toks) THEN ParseFail
  ELSE IF toks[j] = "," THEN Parse(toks, j + 1, what, acc)
  ELSE IF what = "elements" /\ toks[j] = "]"
  THEN [ok |-> TRUE, val |-> JList(acc), nxt |-> j + 1]
  ELSE IF what = "members" /\ toks[j] = "}"
  THEN [ok |-> TRUE, val |-> acc, nxt |-> j + 1]
  ELSE ParseFail

\* The item just read (r), with its key for a member, joins acc.
ParseItem(toks, r, what, acc, key) ==
  IF ~r.ok THEN ParseFail
  ELSE ParseNext(toks, SkipWs(toks, r.nxt), what,
                 IF what = "members" THEN Put(acc, key, r.val)
                 ELSE Append(acc, r.val))

\* The colon of a member, at c, and its value.
ParseMemberValue(toks, c, key, acc) ==
  IF c > Len(toks) \/ toks[c] # ":" THEN ParseFail
  ELSE ParseItem(toks, Parse(toks, c + 1, "value", <<>>), "members", acc, key)

\* The key of a member has been read.
ParseColon(toks, key, acc) ==
  IF ~key.ok THEN ParseFail
  ELSE ParseMemberValue(toks, SkipWs(toks, key.nxt), key.val.s, acc)

\* i is the first token that is not whitespace.
ParseAt(toks, i, what, acc) ==
  IF i > Len(toks) THEN ParseFail
  ELSE IF what = "elements"
  THEN ParseItem(toks, Parse(toks, i, "value", <<>>), "elements", acc, <<>>)
  ELSE IF what = "members"
  THEN IF toks[i] # "\"" THEN ParseFail
       ELSE ParseColon(toks, ScanString(toks, i + 1, <<>>), acc)
  ELSE IF toks[i] = "{"
  THEN IF SkipWs(toks, i + 1) <= Len(toks) /\ toks[SkipWs(toks, i + 1)] = "}"
       THEN [ok |-> TRUE, val |-> JDict(<<>>), nxt |-> SkipWs(toks, i + 1) + 1]
       ELSE Parse(toks, i + 1, "members", JDict(<<>>))
  ELSE IF toks[i] = "["
  THEN IF SkipWs(toks, i + 1) <= Len(toks) /\ toks[SkipWs(toks, i + 1)] = "]"
       THEN [ok |-> TRUE, val |-> JList(<<>>), nxt |-> SkipWs(toks, i + 1) + 1]
       ELSE Parse(toks, i + 1, "elements", <<>>)
  ELSE IF toks[i] = "\"" THEN ScanString(toks, i + 1, <<>>)
  ELSE IF toks[i] = "null" THEN [ok |-> TRUE, val |-> JNull, nxt |-> i + 1]
  ELSE IF toks[i] \in Numerals
  THEN [ok |-> TRUE, val |-> JNum(toks[i]), nxt |-> i + 1]
  ELSE ParseFail

Parse(toks, i, what, acc) == ParseAt(toks, SkipWs(toks, i), what, acc)

\* Nothing but whitespace follows the value r.
ParseEnd(toks, r) ==
  IF r.ok /\ SkipWs(toks, r.nxt) > Len(toks)
  THEN [ok |-> TRUE, val |-> r.val]
  ELSE [ok |-> FALSE, val |-> JNull]

\* json.loads(text): one value and nothing but whitespace after it;
\* ok = FALSE stands for JSONDecodeError.
Loads(toks) == ParseEnd(toks, Parse(toks, 1, "value", <<>>))

\* ------------------------------------------------------ the model service

\* What a call ends with: the exception class it raises ("none": it
\* returns) and the value it returns.
Raised(cls) == [raised |-> cls, value |-> <<>>]

Returned(v) == [raised |-> "none", value |-> v]

\* The classes that derive from requests.exceptions.RequestException.
RequestExceptions ==
  {"ConnectionError", "Timeout", "HTTPError", "requests.JSONDecodeError"}

\* What Response.json() raises on a body that is not JSON: a
\* RequestException subclass in recent versions of requests, a plain
\* ValueError in older ones.  The repository pins no version.
JsonErrors == {"requests.JSONDecodeError", "ValueError"}

\* What the service does with one POST: the transport fails, or it answers
\* with a status and a body.
TransportFailures == {"ConnectionError", "Timeout"}

StatusCodes == {200, 300, 404, 500}

Replies(bodies) ==
  {[transport |-> f, status |-> 0, body |-> <<>>] : f \in TransportFailures}
  \cup {[transport |-> "ok", status |-> s, body |-> b] :
          s \in StatusCodes, b \in bodies}

\* data.get("response", "").strip(), data being what r.json() returned:
\* json() raises on a body that is not JSON, .get on a body that is no
\* object, .strip on a response that is no string.
ResponseOf(data, jsonErr) ==
  IF ~data.ok THEN Raised(jsonErr)
  ELSE IF data.val.t # "dict" THEN Raised("AttributeError")
  ELSE IF Get(data.val, <<"response">>, JStr(<<>>)).t # "str"
  THEN Raised("AttributeError")
  ELSE Returned(Strip(Get(data.val, <<"response">>, JStr(<<>>)).s))

\* As call_ollama, without the call of raise_for_status.
call_ollama_unchecked(reply, jsonErr) ==
  IF reply.transport # "ok" THEN Raised(reply.transport)
  ELSE ResponseOf(Loads(reply.body), jsonErr)

\* call_ollama, given what the service does with the request: post raises
\* on a transport failure, raise_for_status on a 4xx or 5xx status.
call_ollama(reply, jsonErr) ==
  IF reply.transport # "ok" THEN Raised(reply.transport)
  ELSE IF reply.status >= 400 /\ reply.status < 600 THEN Raised("HTTPError")
  ELSE ResponseOf(Loads(reply.body), jsonErr)

\* ------------------------------------------------------- fact extraction

FactKeys ==
  << <<"numbers">>, <<"dates">>, <<"names">>, <<"protocols">>, <<"claims">>,
     <<"constraints">> >>

\* The record of six empty arrays.
EmptyFacts ==
  JDict([i \in 1..Len(FactKeys) |-> [key |-> FactKeys[i], val |-> JList(<<>>)]])

\* str.find and str.rfind of a one-character string: the position of the
\* first (last) such token, counted from 1, or -1.
Find(text, tok) ==
  LET at == {i \in 1..Len(text) : text[i] = tok} IN
  IF at = {} THEN -1 ELSE CHOOSE i \in at : \A j \in at : i <= j

RFind(text, tok) ==
  LET at == {i \in 1..Len(text) : text[i] = tok} IN
  IF at = {} THEN -1 ELSE CHOOSE i \in at : \A j \in at : j <= i

\* for k in [...]: data.setdefault(k, [])
RECURSIVE SetDefaultsFrom(_, _)
SetDefaultsFrom(d, k) ==
  IF k > Len(FactKeys) THEN d
  ELSE SetDefaultsFrom(SetDefault(d, FactKeys[k], JList(<<>>)), k + 1)

\* raw[start:end+1] if both braces are found, else raw.
BraceSlice(raw) ==
  IF Find(raw, "{") # -1 /\ RFind(raw, "}") # -1
  THEN SubSeq(raw, Find(raw, "{"), RFind(raw, "}"))
  ELSE raw

\* The record made of what json.loads returned: setdefault raises
\* AttributeError on a value that is no dict.
FactsOf(data) ==
  IF ~data.ok THEN Raised("JSONDecodeError")
  ELSE IF data.val.t # "dict" THEN Raised("AttributeError")
  ELSE Returned(SetDefaultsFrom(data.val, 1))

\* The try block of extract_facts, r being what call_ollama ended with.
TryFacts(r) ==
  IF r.raised # "none" THEN r ELSE FactsOf(Loads(BraceSlice(r.value)))

\* except Exception: return the record of six empty arrays.
ExceptFacts(r) == IF r.raised # "none" THEN EmptyFacts ELSE r.value

\* extract_facts, given what the service does with its request.
extract_facts(reply, jsonErr) == ExceptFacts(TryFacts(call_ollama(reply, jsonErr)))

\* ----------------------------------------------------- the prompt builder

STYLE_PROMPTS ==
  [s \in {"plain", "peasant", "grandma", "exec"} |->
     CASE s = "plain" ->
            "Rewrite in clear, plain English for a general audience. No jargon. Keep it brief but accurate."
       [] s = "peasant" ->
            "Rewrite like you're explaining to a medieval peasant, playful but still accurate. Short, simple sentences."
       [] s = "grandma" ->
            "Rewrite in warm, simple language as if explaining to a grandparent. No buzzwords. Friendly and clear."
       [] s = "exec" ->
            "Rewrite as crisp executive summary bullets. No fluff, no jargon, focus on outcome and why it matters."]

KeepLine == "- Explicitly include these terms if present in the original: "

\* The policy block of each mode.  A fixed piece of the template is one
\* token.
Policy(mode, maxlen, keep_str) ==
  IF mode = "faithful"
  THEN <<"- This is a faithful simplification: DO NOT drop facts.",
         "- You MUST preserve every number, date, proper noun, standard, protocol, and constraint shown in FACTS.",
         "- If a fact is unclear, include it verbatim rather than omitting.",
         "- Prefer short sentences. Avoid buzzwords.",
         "- Target max length ~", ToString(maxlen),
         " words while preserving all facts.",
         KeepLine>> \o keep_str \o <<".">>
  ELSE <<"- This is a concise summary for non-experts.",
         "- Prioritize outcomes and what it does for the user.",
         "- Keep critical numbers/dates/constraints from FACTS.",
         "- Target max length ~", ToString(maxlen), " words.",
         KeepLine>> \o keep_str \o <<".">>

\* ", ".join(keep_terms) if keep_terms else "none"
KeepStr(keep_terms) ==
  IF keep_terms # <<>> THEN Join(keep_terms, <<",", " ">>) ELSE <<"none">>

\* build_prompt: KeyError on a style that STYLE_PROMPTS does not hold.
build_prompt(style, orig, pre, fcts, maxlen, keep_terms, mode) ==
  IF style \notin DOMAIN STYLE_PROMPTS THEN Raised("KeyError")
  ELSE Returned(<<"You are a jargon translator.", STYLE_PROMPTS[style], "POLICY:">>
                \o Policy(mode, maxlen, KeepStr(keep_terms))
                \o <<"ORIGINAL:", "\"\"\"">> \o Strip(orig) \o <<"\"\"\"">>
                \o <<"PRECLEAN (hints only):", "\"\"\"">> \o Strip(pre)
                \o <<"\"\"\"", "FACTS (must be preserved per POLICY):">>
                \o Dumps(fcts))

\* str.split(","): the pieces between the commas, empty ones included.
RECURSIVE SplitFrom(_, _, _, _)
SplitFrom(text, i, piece, acc) ==
  IF i > Len(text) THEN Append(acc, piece)
  ELSE IF text[i] = "," THEN SplitFrom(text, i + 1, <<>>, Append(acc, piece))
  ELSE SplitFrom(text, i + 1, Append(piece, text[i]), acc)

Split(text) == SplitFrom(text, 1, <<>>, <<>>)

\* As KeepTerms, the pieces not stripped.
KeepTermsUnstripped(keep) ==
  SelectSeq(Split(keep), LAMBDA p : Strip(p) # <<>>)

\* [t.strip() for t in args.keep.split(",") if t.strip()]
KeepTerms(keep) ==
  LET pieces == Split(keep) IN
  SelectSeq([i \in 1..Len(pieces) |-> Strip(pieces[i])], LAMBDA p : p # <<>>)

\* ------------------------------------------------- the sweep on its own

\* The scenario sentence of the documentation.
Scenario ==
  <<"Our", " ", "platform", " ", "leverages", " ", "federated", " ",
    "embeddings", " ", "for", " ", "seamless", ",", " ", "scalable", " ",
    "AI", "-", "powered", " ", "intelligence", " ", "at", " ", "scale", ".">>

BuzzVocab == {"ETL", "data", "lake", "smart", "contracts", "Latency", " ", "-"}

WsVocab == {"x", " ", "\t", "\n"}

SweepInputs ==
  {t \in SeqsUpTo(BuzzVocab, MaxLen) \cup SeqsUpTo(WsVocab, MaxWsLen) :
     Canonical(t)} \cup {Scenario}

NoArgs ==
  [style |-> "plain", mode |-> "faithful", maxlen |-> 120, keep |-> <<>>,
   no_llm |-> TRUE, no_facts |-> TRUE]

Idle ==
  /\ args = NoArgs
  /\ preclean = <<>>
  /\ resweep = <<>>
  /\ facts = <<>>
  /\ prompt = <<>>
  /\ out = <<>>
  /\ requests = <<>>
  /\ stdout = <<>>
  /\ stderr = <<>>
  /\ exc = "none"

InitSweep ==
  /\ pc = "sweep"
  /\ original \in SweepInputs
  /\ Idle

\* preclean = buzz_sweep(original)
CallSweep ==
  /\ pc = "sweep"
  /\ preclean' = buzz_sweep(original)
  /\ pc' = "swept"
  /\ UNCHANGED <<args, original, resweep, facts, prompt, out, requests,
                 stdout, stderr, exc>>

\* buzz_sweep applied to its own output
CallResweep ==
  /\ pc = "swept"
  /\ resweep' = buzz_sweep(preclean)
  /\ pc' = "reswept"
  /\ UNCHANGED <<args, original, preclean, facts, prompt, out, requests,
                 stdout, stderr, exc>>

NextSweep == CallSweep \/ CallResweep

SpecSweep == InitSweep /\ [][NextSweep]_vars

\* ---------------------------------------------------------------- main()

\* The text the model writes on a rewrite request.
ModelTexts == {<<"Plain", " ", "words", ".">>, <<" ", "Plain", " ", "\n">>, <<>>}

\* Bodies of an answer that carry no string in a `response` field.
OddBodies ==
  {<<"Bad", " ", "Gateway">>,
   Dumps(JList(<<>>)),
   Dumps(JNull),
   Dumps(JDict(<<>>)),
   Dumps(JDict(<<[key |-> <<"response">>, val |-> JNull]>>)),
   Dumps(JDict(<<[key |-> <<"response">>, val |-> JNum("42")]>>))}

ResponseBody(text) == Dumps(JDict(<<[key |-> <<"response">>, val |-> JStr(text)]>>))

RewriteReplies == Replies({ResponseBody(t) : t \in ModelTexts} \cup OddBodies)

\* The text the model writes on an extraction request, in an invocation.
MainRawTexts ==
  {<<"I", " ", "cannot", ".">>,
   Dumps(EmptyFacts),
   <<"Sure", ":", " ">>
     \o Dumps(JDict(<<[key |-> <<"numbers">>, val |-> JList(<<JStr(<<"42">>)>>)]>>)),
   Dumps(JDict(<<[key |-> <<"names">>, val |-> JNull],
                 [key |-> <<"extra">>, val |-> JNum("1")]>>))}

MainExtractReplies ==
  Replies({ResponseBody(t) : t \in MainRawTexts} \cup OddBodies)

\* One request as the service saw it, and what it did with it.
Request(kind, temperature, reply) ==
  [kind |-> kind, temperature |-> temperature,
   transport |-> reply.transport, status |-> reply.status]

Styles == DOMAIN STYLE_PROMPTS \cup {"pirate"}

Modes == {"faithful", "summary"}

MainKeeps == {<<>>, <<"MQTT", ",", "HIPAA">>}

MainTexts == {Scenario, <<"ETL", " ", "lake">>}

Init ==
  /\ pc = "parse_args"
  /\ args \in [style : Styles, mode : Modes, maxlen : {120}, keep : MainKeeps,
               no_llm : BOOLEAN, no_facts : BOOLEAN]
  /\ original \in MainTexts
  /\ preclean = <<>>
  /\ resweep = <<>>
  /\ facts = JNull
  /\ prompt = <<>>
  /\ out = <<>>
  /\ requests = <<>>
  /\ stdout = <<>>
  /\ stderr = <<>>
  /\ exc = "none"

\* As ParseArgs, the style option without its choices.
ParseArgsAnyStyle ==
  /\ pc = "parse_args"
  /\ pc' = "sweep"
  /\ UNCHANGED <<args, original, preclean, resweep, facts, prompt, out,
                 requests, stdout, stderr, exc>>

\* ap.parse_args(): a style that is not among the choices ends the process
\* with a usage error (SystemExit); then the input text is read.
ParseArgs ==
  /\ pc = "parse_args"
  /\ IF args.style \notin DOMAIN STYLE_PROMPTS
     THEN /\ stderr' = Append(stderr, "usage: invalid choice")
          /\ exc' = "SystemExit"
          /\ pc' = "exited"
     ELSE /\ pc' = "sweep"
          /\ UNCHANGED <<stderr, exc>>
  /\ UNCHANGED <<args, original, preclean, resweep, facts, prompt, out,
                 requests, stdout>>

\* preclean = buzz_sweep(original); with --no-llm, print it and return.
SweepStep ==
  /\ pc = "sweep"
  /\ preclean' = buzz_sweep(original)
  /\ IF args.no_llm
     THEN /\ stdout' = Append(stdout, buzz_sweep(original))
          /\ pc' = "done"
     ELSE /\ pc' = "facts"
          /\ UNCHANGED stdout
  /\ UNCHANGED <<args, original, resweep, facts, prompt, out, requests,
                 stderr, exc>>

\* facts = extract_facts(args.model, original), the service answering with
\* one of `replies`.
ExtractWith(replies) ==
  /\ pc = "facts"
  /\ ~args.no_facts
  /\ \E reply \in replies, jsonErr \in JsonErrors :
       /\ requests' = Append(requests, Request("extract", "0.0", reply))
       /\ facts' = extract_facts(reply, jsonErr)
  /\ pc' = "build"
  /\ UNCHANGED <<args, original, preclean, resweep, prompt, out, stdout,
                 stderr, exc>>

\* As ExtractStep, the --no-facts flag not looked at.
ExtractStepAlways ==
  /\ pc = "facts"
  /\ \E reply \in MainExtractReplies, jsonErr \in JsonErrors :
       /\ requests' = Append(requests, Request("extract", "0.0", reply))
       /\ facts' = extract_facts(reply, jsonErr)
  /\ pc' = "build"
  /\ UNCHANGED <<args, original, preclean, resweep, prompt, out, stdout,
                 stderr, exc>>

\* The facts record and, unless --no-facts is given, the extraction pass.
ExtractStep ==
  \/ /\ pc = "facts"
     /\ args.no_facts
     /\ facts' = EmptyFacts
     /\ pc' = "build"
     /\ UNCHANGED <<args, original, preclean, resweep, prompt, out, requests,
                    stdout, stderr, exc>>
  \/ ExtractWith(MainExtractReplies)

\* keep_terms and prompt = build_prompt(...); an exception of build_prompt
\* is not caught.
BuildStep ==
  /\ pc = "build"
  /\ LET r == build_prompt(args.style, original, preclean, facts, args.maxlen,
                           KeepTerms(args.keep), args.mode)
     IN IF r.raised # "none"
        THEN /\ exc' = r.raised
             /\ pc' = "crashed"
             /\ UNCHANGED prompt
        ELSE /\ prompt' = r.value
             /\ pc' = "rewrite"
             /\ UNCHANGED exc
  /\ UNCHANGED <<args, original, preclean, resweep, facts, out, requests,
                 stdout, stderr>>

\* out = call_ollama(...): a RequestException is reported and preclean
\* taken in its place; any other exception is not caught.
RewriteStep ==
  /\ pc = "rewrite"
  /\ \E reply \in RewriteReplies, jsonErr \in JsonErrors :
       LET r == call_ollama(reply, jsonErr) IN
       /\ requests' = Append(requests, Request("rewrite", "0.2", reply))
       /\ IF r.raised \in RequestExceptions
          THEN /\ stderr' = Append(stderr, "[ERR] Ollama request failed")
               /\ out' = preclean
               /\ pc' = "print"
               /\ UNCHANGED exc
          ELSE IF r.raised # "none"
          THEN /\ exc' = r.raised
               /\ pc' = "crashed"
               /\ UNCHANGED <<out, stderr>>
          ELSE /\ out' = r.value
               /\ pc' = "print"
               /\ UNCHANGED <<stderr, exc>>
  /\ UNCHANGED <<args, original, preclean, resweep, facts, prompt, stdout>>

\* print(out)
PrintStep ==
  /\ pc = "print"
  /\ stdout' = Append(stdout, out)
  /\ pc' = "done"
  /\ UNCHANGED <<args, original, preclean, resweep, facts, prompt, out,
                 requests, stderr, exc>>

Next ==
  \/ ParseArgs
  \/ SweepStep
  \/ ExtractStep
  \/ BuildStep
  \/ RewriteStep
  \/ PrintStep

Spec == Init /\ [][Next]_vars

\* ------------------------------------------- fact extraction on its own

\* Most members of an object the model writes.
MaxFields == 2

FieldKeys == {<<"numbers">>, <<"claims">>, <<"extra">>}

FieldVals == {JList(<<>>), JList(<<JStr(<<"42">>)>>), JNull, JStr(<<"soon">>)}

\* The objects of at most MaxFields members, no key twice.
FactObjects ==
  {JDict(ms) :
     ms \in {s \in SeqsUpTo([key : FieldKeys, val : FieldVals], MaxFields) :
               \A i, j \in 1..Len(s) : i # j => s[i].key # s[j].key}}

\* What the model writes at the core of its answer: an object, an object
\* inside a list, other JSON, no JSON.
FactCores ==
  {Dumps(o) : o \in FactObjects}
  \cup {Dumps(JList(<<JDict(<<>>)>>)), Dumps(JList(<<JNum("1")>>)),
        Dumps(JNull), Dumps(JStr(<<"numbers">>)), <<"I", " ", "cannot", ".">>}

\* Prose, or a stray brace, before and after the core.
FactPrefixes == {<<>>, <<"Sure", ":", "\n">>, <<"{", " ">>}

FactSuffixes == {<<>>, <<"\n", "Done", ".">>, <<" ", "}">>}

FactRawTexts ==
  {p \o c \o s : p \in FactPrefixes, c \in FactCores, s \in FactSuffixes}

FactReplies == Replies({ResponseBody(t) : t \in FactRawTexts} \cup OddBodies)

InitFacts ==
  /\ pc = "facts"
  /\ args = [NoArgs EXCEPT !.no_llm = FALSE, !.no_facts = FALSE]
  /\ original \in MainTexts
  /\ preclean = buzz_sweep(original)
  /\ resweep = <<>>
  /\ facts = JNull
  /\ prompt = <<>>
  /\ out = <<>>
  /\ requests = <<>>
  /\ stdout = <<>>
  /\ stderr = <<>>
  /\ exc = "none"

NextFacts == ExtractWith(FactReplies)

SpecFacts == InitFacts /\ [][NextFacts]_vars

\* -------------------------------------------- the prompt builder on its own

\* Longest --keep option, in tokens.
MaxKeepLen == 4

KeepVocab == {"MQTT", "HIPAA", ",", " "}

KeepInputs == {k \in SeqsUpTo(KeepVocab, MaxKeepLen) : Canonical(k)}

InitPrompt ==
  /\ pc = "build"
  /\ args \in [style : DOMAIN STYLE_PROMPTS, mode : Modes, maxlen : {120},
               keep : KeepInputs, no_llm : {FALSE}, no_facts : {TRUE}]
  /\ original = <<"ETL", " ", "lake">>
  /\ preclean = buzz_sweep(original)
  /\ resweep = <<>>
  /\ facts = EmptyFacts
  /\ prompt = <<>>
  /\ out = <<>>
  /\ requests = <<>>
  /\ stdout = <<>>
  /\ stderr = <<>>
  /\ exc = "none"

NextPrompt == BuildStep

SpecPrompt == InitPrompt /\ [][NextPrompt]_vars

\* ---------------------------------------------------------------- claims

Contains(text, sub) ==
  \E i \in 1..(Len(text) - Len(sub) + 1) :
    SubSeq(text, i, i + Len(sub) - 1) = sub

ScenarioBuzzwords ==
  {<<"leverages">>, <<"federated">>, <<"embeddings">>, <<"seamless">>,
   <<"scalable">>, <<"AI", "-", "powered">>, <<"intelligence">>,
   <<"at", " ", "scale">>}

\* C1: sweeping the scenario sentence leaves none of its eight buzzwords in
\* the output.
C1_ScenarioNoBuzzwordLeft ==
  (pc = "swept" /\ original = Scenario) =>
    \A w \in ScenarioBuzzwords : ~Contains(preclean, w)

\* C7: no rule matches text that an earlier rule's replacement introduced,
\* alone or together with input text next to it.
C7_NoRematchOfReplacement ==
  pc = "swept" => ~ApplyRules(original).hit

\* The positions of the non-whitespace tokens of a text, in order.
Solid(text) ==
  SelectSeq([i \in 1..Len(text) |-> i], LAMBDA i : ~IsWs(text[i]))

\* The whitespace between the k-th and the (k+1)-th non-whitespace token.
Gap(text, k) == SubSeq(text, Solid(text)[k] + 1, Solid(text)[k + 1] - 1)

\* C9: the swept text has no two whitespace characters in a row and none at
\* either end; it keeps the non-whitespace tokens of the substituted text,
\* and between two of them a run of two or more whitespace characters has
\* become exactly one space (a single whitespace character is kept).
C9_WhitespaceNormalised ==
  pc = "swept" =>
    LET sub == ApplyRules(original).toks IN
    /\ \A i \in 1..(Len(preclean) - 1) :
         ~(IsWs(preclean[i]) /\ IsWs(preclean[i + 1]))
    /\ preclean # <<>> => ~IsWs(preclean[1]) /\ ~IsWs(preclean[Len(preclean)])
    /\ Len(Solid(preclean)) = Len(Solid(sub))
    /\ \A k \in 1..Len(Solid(sub)) : preclean[Solid(preclean)[k]] = sub[Solid(sub)[k]]
    /\ \A k \in 1..(Len(Solid(sub)) - 1) :
         IF Len(Gap(sub, k)) >= 2 THEN Gap(preclean, k) = <<" ">>
         ELSE Gap(preclean, k) = Gap(sub, k)

\* A run of whitespace was collapsed and whitespace was trimmed at an end.
C9_Witness ==
  /\ pc = "swept"
  /\ \E i \in 1..(Len(original) - 2) :
       /\ ~IsWs(original[i])
       /\ IsWs(original[i + 1]) /\ IsWs(original[i + 2])
  /\ IsWs(original[Len(original)])
  /\ Len(preclean) = 3

NoRuleMatches(text) ==
  \A n \in 1..Len(BUZZMAP) : \A i \in 1..Len(text) :
    ~MatchAt(BUZZMAP[n].pat, text, i)

\* C10 as stated: sweeping a swept text again returns it unchanged.
C10_Idempotent ==
  pc = "reswept" => resweep = preclean

\* C10 as amended: a second sweep returns the swept text unchanged exactly
\* when no rule of the table matches the swept text.
C10_IdempotentIffNoMatchLeft ==
  pc = "reswept" => (NoRuleMatches(preclean) <=> resweep = preclean)

\* The first sweep substituted and normalised, and the second changed nothing.
C10_Witness ==
  /\ pc = "reswept"
  /\ ApplyRules(original).toks # original
  /\ preclean # ApplyRules(original).toks
  /\ NoRuleMatches(preclean)
  /\ resweep = preclean

\* The six keys, each holding an array, and no other key.
WellShaped(f) ==
  /\ f.t = "dict"
  /\ Len(f.items) = Len(FactKeys)
  /\ {f.items[i].key : i \in 1..Len(f.items)} = {FactKeys[i] : i \in 1..Len(FactKeys)}
  /\ \A i \in 1..Len(f.items) : f.items[i].val.t = "list"

\* C2: whatever the service does with the extraction request, the facts
\* record has exactly the six keys, each holding an array.
C2_FactsWellShaped ==
  pc = "build" => WellShaped(facts)

\* The rewrite request, once it has been sent.
RewriteSent == requests # <<>> /\ requests[Len(requests)].kind = "rewrite"

RewriteRequest == requests[Len(requests)]

\* The diagnostic was written once, preclean is the output, nothing raised.
FellBack ==
  /\ pc \in {"print", "done"}
  /\ exc = "none"
  /\ Len(stderr) = 1
  /\ out = preclean
  /\ pc = "done" => stdout = <<preclean>>

\* C3 as stated, for the calls whose answer is otherwise in order (nothing is
\* raised while its body is read): a rewrite call that ends in a refused
\* connection, a timeout or a status that is not 2xx writes one diagnostic
\* and prints preclean.
C3_FallbackOnNon2xx ==
  (RewriteSent /\ exc = "none"
               /\ (RewriteRequest.transport # "ok"
                   \/ RewriteRequest.status \notin 200..299))
    => FellBack

\* C3 as amended: a rewrite call that ends in a refused connection, a timeout
\* or a 4xx or 5xx status writes one diagnostic and prints preclean; nothing
\* is raised.
C3_FallbackOnTransportFailure ==
  (RewriteSent /\ (RewriteRequest.transport # "ok"
                   \/ RewriteRequest.status \in 400..599))
    => FellBack

\* The service answered the rewrite request with a 500, and preclean was printed.
C3_Witness ==
  /\ pc = "done"
  /\ RewriteSent
  /\ RewriteRequest.transport = "ok"
  /\ RewriteRequest.status = 500
  /\ stdout = <<preclean>>
  /\ Len(stderr) = 1

\* C4: whatever the service does with the two requests, an invocation with
\* valid options does not end in an uncaught exception, and when it ends it
\* has printed one text.
C4_NoConditionFatal ==
  args.style \in DOMAIN STYLE_PROMPTS =>
    /\ pc # "crashed"
    /\ exc = "none"
    /\ pc = "done" => Len(stdout) = 1

IsPrefix(s, t) == Len(s) <= Len(t) /\ s = SubSeq(t, 1, Len(s))

RequestKinds == [i \in 1..Len(requests) |-> requests[i].kind]

\* The requests of an invocation with these options that runs to its end.
ExpectedKinds ==
  IF args.no_llm THEN <<>>
  ELSE (IF args.no_facts THEN <<>> ELSE <<"extract">>) \o <<"rewrite">>

\* C5: with --no-llm no request is sent and preclean is printed; otherwise
\* the requests are at most one extraction (none with --no-facts) and then
\* exactly one rewrite, whatever the service answers: none is sent again.
C5_RequestSequence ==
  /\ IsPrefix(RequestKinds, ExpectedKinds)
  /\ pc \in {"print", "done", "crashed"} => RequestKinds = ExpectedKinds
  /\ (pc = "done" /\ args.no_llm) => stdout = <<preclean>>

\* Both requests failed, and each was sent once.
C5_Witness ==
  /\ pc = "done"
  /\ Len(requests) = 2
  /\ requests[1].kind = "extract" /\ requests[1].transport = "Timeout"
  /\ requests[2].kind = "rewrite" /\ requests[2].status = 500

BadStyle == args.style \notin DOMAIN STYLE_PROMPTS

\* C6 as stated: a style that is not one of the four is rejected by the
\* prompt builder's error, before any request is sent.
C6_RejectedByPromptBuilder ==
  (BadStyle /\ pc # "parse_args") =>
    /\ pc = "crashed"
    /\ exc \in {"ConfigurationError", "KeyError"}
    /\ requests = <<>>

\* C6 as amended: a style that is not one of the four is rejected by the
\* argument parser, which ends the process with a usage error before the
\* sweep, before the prompt builder is called and before any request.
C6_RejectedByArgumentParser ==
  (BadStyle /\ pc # "parse_args") =>
    /\ pc = "exited"
    /\ exc = "SystemExit"
    /\ requests = <<>>
    /\ prompt = <<>>
    /\ stdout = <<>>

C6_Witness ==
  /\ args.style = "pirate"
  /\ ~args.no_llm /\ ~args.no_facts
  /\ pc = "exited"
  /\ requests = <<>>

\* The policy block of a prompt: what stands between its two headings.
PolicyBlock(p) == SubSeq(p, Find(p, "POLICY:") + 1, Find(p, "ORIGINAL:") - 1)

\* The commas of a --keep option, and its two ends.
KeepCuts(keep) ==
  {0, Len(keep) + 1} \cup {i \in 1..Len(keep) : keep[i] = ","}

\* The r-th piece between two cuts, trimmed.
KeepPiece(keep, r) ==
  LET a == CHOOSE c \in KeepCuts(keep) :
             Cardinality({d \in KeepCuts(keep) : d < c}) = r - 1
      b == Min({c \in KeepCuts(keep) : c > a})
  IN Strip(SubSeq(keep, a + 1, b - 1))

\* The keep terms as the policy block is to show them.
ExpectedKeepStr(keep) ==
  LET terms == SelectSeq([r \in 1..(Cardinality(KeepCuts(keep)) - 1) |->
                            KeepPiece(keep, r)],
                         LAMBDA p : p # <<>>)
  IN IF terms = <<>> THEN <<"none">> ELSE Join(terms, <<",", " ">>)

====
